---------------------------- MODULE Spec2Model ----------------------------
(***************************************************************************)
(* Model of the ispeed measurement engine (pkg/ispeed/ispeed.go):          *)
(* RunClient and its three phases runPing, runDownload and runUpload, the  *)
(* per-phase worker goroutines, the shared byte counter, the once-guarded  *)
(* error slot, the progress sampler and the timedReader byte source.       *)
(*                                                                         *)
(* Units.  Durations are whole milliseconds.  Byte amounts are counted in  *)
(* whole chunks-of-the-model: PerStreamBytes stands for DownloadMB * 1 MiB *)
(* and ChunkSize for cfg.ChunkSize.  Throughput is kept in kbit/s (a       *)
(* thousandth of the Mbps the code reports) so that it stays an integer.   *)
(*                                                                         *)
(* The HTTP transport is the environment: it decides what client.Get,      *)
(* client.Do and resp.Body.Read return, and it pulls the upload body from  *)
(* the timedReader while client.Do is in progress.                         *)
(***************************************************************************)
EXTENDS Integers, Sequences, FiniteSets, TLC

\* ------------------------------------------------------------------ bounds
MaxStreams == 2
MaxPingCount == 1
MaxRTT == 1
PerStreamBytes == 2
ChunkSize == 1
MaxBodyReads == 2
MaxTicks == 1
MaxElapsed == 1
Duration == 2
MaxCalls == 4
MaxField == 2
MaxURLLen == 2
MaxRaw == 2
MaxReports == 1
MaxSends == 18
MaxPingSamples == 3
MaxDur == 2
PDen == 20

\* ------------------------------------------------- structs.go defaults
DefaultDuration == 12000
DefaultStreams == 1
DefaultChunkSize == 65536
DefaultDownloadMB == 40
DefaultPingCount == 6
DefaultTimeout == 30000

\* DefaultClientBase = "https://speed.getanswers.pro": a URL is the sequence
\* of its characters; the default is shortened to its scheme and a host letter.
DefaultClientBase == <<"h", ":", "/", "/", "s">>

\* if cfg.ChunkSize < 1024
MinChunkSize == 1024

\* main: progressCh := make(chan ispeed.ProgressUpdate, 16)
ProgressChCap == 16

Phases == {"download", "upload"}
Elapsed == 1..MaxElapsed

\* ------------------------------------------------------------------ errors
\* An error value: its kind, the phase that produced it and the worker
\* goroutine it came from (0: the goroutine running RunClient).
NoErr == [kind |-> "nil", ph |-> "", by |-> 0]

\* In the history of returns: the phase function has not returned.
Pending == [kind |-> "pending", ph |-> "", by |-> 0]
Err(kind, ph, by) == [kind |-> kind, ph |-> ph, by |-> by]

\* A test that takes a done context for the end of the stream, as the upload
\* path does.
IsEOFOrExpectedCancellation(err) == err.kind \in {"eof", "deadline", "canceled"}

\* errors.Is(err, io.EOF)
IsEOF(err) == err.kind = "eof"

\* errors.Is(err, context.DeadlineExceeded) alone
IsExpectedCancellationDeadlineOnly(err) == err.kind = "deadline"

\* errors.Is(err, context.DeadlineExceeded) || errors.Is(err, context.Canceled)
IsExpectedCancellation(err) == err.kind \in {"deadline", "canceled"}

\* ----------------------------------------------------------- pure helpers
RECURSIVE SumSeq(_)
SumSeq(s) == IF s = <<>> THEN 0 ELSE Head(s) + SumSeq(Tail(s))

RECURSIVE SumFn(_, _)
SumFn(f, S) ==
  IF S = {} THEN 0
  ELSE LET x == CHOOSE y \in S : TRUE IN f[x] + SumFn(f, S \ {x})

RECURSIVE Insert(_, _)
Insert(x, s) ==
  IF s = <<>> THEN <<x>>
  ELSE IF x <= Head(s) THEN <<x>> \o s
  ELSE <<Head(s)>> \o Insert(x, Tail(s))

\* slices.Sort(results)
RECURSIVE SortAsc(_)
SortAsc(s) == IF s = <<>> THEN <<>> ELSE Insert(Head(s), SortAsc(Tail(s)))

\* math.Ceil(a / b) for a >= 0, b > 0
CeilDiv(a, b) == (a + b - 1) \div b

Max2(a, b) == IF a >= b THEN a ELSE b
Min2(a, b) == IF a <= b THEN a ELSE b

\* The worker goroutines a phase may start.
Workers == 1..Max2(MaxStreams, DefaultStreams)

\* Go's a / b on integers, b > 0: the quotient truncated toward zero
Quot(a, b) == IF a >= 0 THEN a \div b ELSE -((-a) \div b)

\* The mean rounded down, which differs from Go's quotient below zero.
avgDurationFloors(items) ==
  IF Len(items) = 0 THEN 0 ELSE SumSeq(items) \div Len(items)

avgDuration(items) ==
  IF Len(items) = 0 THEN 0 ELSE Quot(SumSeq(items), Len(items))

\* The index taken without the "- 1".
percentileDurationNoMinusOne(items, pNum, pDen) ==
  IF Len(items) = 0 THEN 0
  ELSE IF pNum <= 0 THEN items[1]
  ELSE IF pNum >= pDen THEN items[Len(items)]
  ELSE LET index0 == CeilDiv(Len(items) * pNum, pDen)
           index1 == Max2(index0, 0)
           index  == IF index1 >= Len(items) THEN Len(items) - 1 ELSE index1
       IN  items[index + 1]

\* percentile is the rational pNum / pDen (0.95 is 95 / 100)
percentileDuration(items, pNum, pDen) ==
  IF Len(items) = 0 THEN 0
  ELSE IF pNum <= 0 THEN items[1]
  ELSE IF pNum >= pDen THEN items[Len(items)]
  ELSE LET index0 == CeilDiv(Len(items) * pNum, pDen) - 1
           index1 == Max2(index0, 0)
           index  == IF index1 >= Len(items) THEN Len(items) - 1 ELSE index1
       IN  items[index + 1]

\* Bytes per ms in place of bits per ms.
bytesToMbpsNoBits(bytes, duration) ==
  IF duration <= 0 THEN 0 ELSE bytes \div duration

\* bits / duration.Seconds() / 1_000_000, in kbit/s, duration in ms
bytesToMbps(bytes, duration) ==
  IF duration <= 0 THEN 0 ELSE (bytes * 8) \div duration

Clamp100(p) == IF p < 0 THEN 0 ELSE IF p > 100 THEN 100 ELSE p

percentDone(current, total) ==
  IF total <= 0 THEN 0 ELSE Clamp100((current * 100) \div total)

percentElapsed(elapsed, target) ==
  IF target <= 0 THEN 0 ELSE Clamp100((elapsed * 100) \div target)

ZeroPing == [Min |-> 0, Avg |-> 0, P95 |-> 0]
ZeroSpeed == [Mbps |-> 0, Bytes |-> 0, Duration |-> 0]
ZeroResult == [Ping |-> ZeroPing, Download |-> ZeroSpeed, Upload |-> ZeroSpeed]

\* The metrics taken from the samples in their order of arrival.
PingMetricsOfUnsorted(results) ==
  [Min |-> results[1],
   Avg |-> avgDuration(results),
   P95 |-> percentileDuration(results, 95, 100)]

PingMetricsOf(results) ==
  LET sorted == SortAsc(results)
  IN  [Min |-> sorted[1],
       Avg |-> avgDuration(sorted),
       P95 |-> percentileDuration(sorted, 95, 100)]

SpeedMetricsOf(bytes, elapsed) ==
  [Mbps |-> bytesToMbps(bytes, elapsed), Bytes |-> bytes, Duration |-> elapsed]


\* ------------------------------------------------------------------- state
VARIABLES
  cfg,           \* ClientConfig: Streams, PingCount, Progress (sink set), URLValid
  pc,            \* position of the goroutine running RunClient
  results,       \* runPing: the samples collected so far
  pingInFlight,  \* runPing: client.Get has been called and has not returned
  pingRes,       \* RunClient: pingRes
  downloadRes,   \* RunClient: downloadRes
  ret,           \* what RunClient returned: [res, err]
  ctx,           \* per phase: the phase context ("none", "live", "deadline", "canceled")
  totalBytes,    \* per phase: the shared byte counter
  runErr,        \* per phase: the error slot
  errOnce,       \* per phase: sync.Once has run
  wg,            \* per phase: the wait-group counter
  spawned,       \* per phase: the loop index i of the wg.Go loop
  elapsed,       \* per phase: elapsed := time.Since(start) after wg.Wait
  progressDone,  \* per phase: the sampler's stop channel ("nil", "open", "closed")
  sampler,       \* per phase: the sampler goroutine ("off", "select", "exit")
  ticks,         \* history: number of times a sampler's ticker has fired
  worker,        \* per phase, per worker: position of the worker goroutine
  body,          \* download, per worker: bytes the response body still holds
  uploadCtx,     \* upload, per worker: uploadCtx ("none", "live", "deadline", "canceled")
  count,         \* upload, per worker: timedReader.count
  sink,          \* the progress sink: the last update delivered, the arguments
                 \* of the call that delivered it and counts per phase
  errCalls,      \* history, per phase: the arguments of the setRunErr calls, in order
  errWrites,     \* history, per phase: number of assignments to the error slot
  readBytes,     \* history, download, per worker: bytes resp.Body.Read returned
  outcome,       \* history, per phase, per worker: how the worker's exchange ended
  lateBytes,     \* history, per phase: bytes counted while the error slot was set
  requests,      \* history, per phase: number of requests issued
  phaseErr,      \* history, per phase: the error the phase function returned
  sleeps,        \* history, runPing: number of time.Sleep calls
  progressCh,    \* main: the buffered channel of progress updates
  dropped,       \* history, main: number of updates sendProgress dropped
  chClosed,      \* main: close(progressCh) has been executed
  lastCall       \* history: the last call of a helper made on its own: its name,
                 \* its ordinal, its arguments and its result

cfgVars == <<cfg>>
pingVars == <<results, pingInFlight, sleeps>>
uiVars == <<progressCh, dropped, chClosed>>
runVars == <<pingRes, downloadRes, ret, phaseErr>>
errVars == <<runErr, errOnce, errCalls, errWrites>>
phaseVars == <<ctx, wg, spawned, elapsed, progressDone>>
workerVars == <<worker, body, uploadCtx, count, readBytes, outcome>>
byteVars == <<totalBytes, lateBytes>>
histVars == <<requests, ticks>>
vars == <<cfg, pc, results, pingInFlight, pingRes, downloadRes, ret, ctx,
          totalBytes, runErr, errOnce, wg, spawned, elapsed, progressDone,
          sampler, ticks, worker, body, uploadCtx, count, sink, errCalls, errWrites,
          readBytes, outcome, lateBytes, requests, phaseErr, sleeps,
          progressCh, dropped, chClosed, lastCall>>

AllPhases == {"ping", "download", "upload"}

\* Positions of the goroutine running RunClient.
At(ph, step) == [ph |-> ph, at |-> step]
PcStart == At("run", "start")
PcPing == At("ping", "loop")
PcReturned == At("run", "returned")
NoUpdate == [Phase |-> "", Percent |-> 0, Mbps |-> 0, PingMs |-> 0]

NoCall == [fn |-> "", k |-> 0, args |-> <<>>, out |-> [n |-> 0, err |-> "nil"]]

\* The state all specifications start from, the configuration apart.
InitRest ==
  /\ pc = PcStart
  /\ results = <<>>
  /\ pingInFlight = FALSE
  /\ pingRes = ZeroPing
  /\ downloadRes = ZeroSpeed
  /\ ret = [res |-> ZeroResult, err |-> NoErr]
  /\ ctx = [ph \in Phases |-> "none"]
  /\ totalBytes = [ph \in Phases |-> 0]
  /\ runErr = [ph \in Phases |-> NoErr]
  /\ errOnce = [ph \in Phases |-> FALSE]
  /\ wg = [ph \in Phases |-> 0]
  /\ spawned = [ph \in Phases |-> 0]
  /\ elapsed = [ph \in Phases |-> 0]
  /\ progressDone = [ph \in Phases |-> "nil"]
  /\ sampler = [ph \in Phases |-> "off"]
  /\ ticks = 0
  /\ worker = [ph \in Phases |-> [w \in Workers |-> "idle"]]
  /\ body = [w \in Workers |-> 0]
  /\ uploadCtx = [w \in Workers |-> "none"]
  /\ count = [w \in Workers |-> 0]
  /\ sink = [last |-> NoUpdate, raw |-> NoUpdate, n |-> [ph \in AllPhases |-> 0]]
  /\ errCalls = [ph \in Phases |-> <<>>]
  /\ errWrites = [ph \in Phases |-> 0]
  /\ readBytes = [w \in Workers |-> 0]
  /\ outcome = [ph \in Phases |-> [w \in Workers |-> "none"]]
  /\ lateBytes = [ph \in Phases |-> 0]
  /\ requests = [ph \in AllPhases |-> 0]
  /\ phaseErr = [ph \in AllPhases |-> Pending]
  /\ sleeps = 0
  /\ progressCh = <<>>
  /\ dropped = 0
  /\ chClosed = FALSE
  /\ lastCall = NoCall

\* The configurations a caller may pass: 0 stands for every value below 1.
\* The fields the phases do not branch on are passed at their defaults.
Init ==
  /\ cfg \in [BaseURL : {DefaultClientBase}, Duration : {DefaultDuration},
              Streams : 0..MaxStreams, ChunkSize : {DefaultChunkSize},
              DownloadMB : {DefaultDownloadMB}, PingCount : 0..MaxPingCount,
              Timeout : {DefaultTimeout}, Progress : BOOLEAN, URLValid : BOOLEAN]
  /\ InitRest

\* ------------------------------------------------------ normalizeClientConfig
\* strings.TrimRight(s, "/")
RECURSIVE TrimRight(_)
TrimRight(s) ==
  IF s # <<>> /\ s[Len(s)] = "/" THEN TrimRight(SubSeq(s, 1, Len(s) - 1)) ELSE s

\* The check of ChunkSize with <= in place of <.
normalizeClientConfigOffByOne(c) ==
  [c EXCEPT !.BaseURL = TrimRight(IF c.BaseURL = <<>> THEN DefaultClientBase
                                  ELSE c.BaseURL),
            !.Duration = IF c.Duration <= 0 THEN DefaultDuration ELSE c.Duration,
            !.Streams = IF c.Streams < 1 THEN DefaultStreams ELSE c.Streams,
            !.ChunkSize = IF c.ChunkSize <= MinChunkSize THEN DefaultChunkSize
                          ELSE c.ChunkSize,
            !.DownloadMB = IF c.DownloadMB < 1 THEN DefaultDownloadMB
                           ELSE c.DownloadMB,
            !.PingCount = IF c.PingCount < 1 THEN DefaultPingCount ELSE c.PingCount,
            !.Timeout = IF c.Timeout <= 0 THEN DefaultTimeout ELSE c.Timeout]

\* PingCount taken as given, without the default for values below 1.
normalizeClientConfigKeepsPingCount(c) ==
  [c EXCEPT !.BaseURL = TrimRight(IF c.BaseURL = <<>> THEN DefaultClientBase
                                  ELSE c.BaseURL),
            !.Duration = IF c.Duration <= 0 THEN DefaultDuration ELSE c.Duration,
            !.Streams = IF c.Streams < 1 THEN DefaultStreams ELSE c.Streams,
            !.ChunkSize = IF c.ChunkSize < MinChunkSize THEN DefaultChunkSize
                          ELSE c.ChunkSize,
            !.DownloadMB = IF c.DownloadMB < 1 THEN DefaultDownloadMB
                           ELSE c.DownloadMB,
            !.Timeout = IF c.Timeout <= 0 THEN DefaultTimeout ELSE c.Timeout]

\* Durations are in ms, ChunkSize in bytes, DownloadMB in MiB.  The phases
\* below count time and bytes in the scaled units of the bounds Duration,
\* ChunkSize and PerStreamBytes.
normalizeClientConfig(c) ==
  [c EXCEPT !.BaseURL = TrimRight(IF c.BaseURL = <<>> THEN DefaultClientBase
                                  ELSE c.BaseURL),
            !.Duration = IF c.Duration <= 0 THEN DefaultDuration ELSE c.Duration,
            !.Streams = IF c.Streams < 1 THEN DefaultStreams ELSE c.Streams,
            !.ChunkSize = IF c.ChunkSize < MinChunkSize THEN DefaultChunkSize
                          ELSE c.ChunkSize,
            !.DownloadMB = IF c.DownloadMB < 1 THEN DefaultDownloadMB
                           ELSE c.DownloadMB,
            !.PingCount = IF c.PingCount < 1 THEN DefaultPingCount ELSE c.PingCount,
            !.Timeout = IF c.Timeout <= 0 THEN DefaultTimeout ELSE c.Timeout]

\* ------------------------------------------------------------ reportProgress
\* The value of the sink after reportProgress(cfg, phase, percent, mbps, pingMs).
reportProgressNoUpperClamp(c, phase, percent, mbps, pingMs) ==
  IF ~c.Progress THEN sink
  ELSE [last |-> [Phase |-> phase,
                  Percent |-> Max2(percent, 0),
                  Mbps |-> Max2(mbps, 0),
                  PingMs |-> Max2(pingMs, 0)],
        raw |-> [Phase |-> phase, Percent |-> percent, Mbps |-> mbps,
                 PingMs |-> pingMs],
        n |-> [sink.n EXCEPT ![phase] = @ + 1]]

reportProgress(c, phase, percent, mbps, pingMs) ==
  IF ~c.Progress THEN sink
  ELSE [last |-> [Phase |-> phase,
                  Percent |-> Clamp100(percent),
                  Mbps |-> Max2(mbps, 0),
                  PingMs |-> Max2(pingMs, 0)],
        raw |-> [Phase |-> phase, Percent |-> percent, Mbps |-> mbps,
                 PingMs |-> pingMs],
        n |-> [sink.n EXCEPT ![phase] = @ + 1]]

\* ----------------------------------------------------------------- setRunErr
setRunErrLastWins(ph, err) ==
  /\ errCalls' = [errCalls EXCEPT ![ph] = Append(@, err)]
  /\ IF err = NoErr
     THEN UNCHANGED <<runErr, errOnce, errWrites>>
     ELSE /\ runErr' = [runErr EXCEPT ![ph] = err]
          /\ errOnce' = [errOnce EXCEPT ![ph] = TRUE]
          /\ errWrites' = [errWrites EXCEPT ![ph] = @ + 1]

setRunErr(ph, err) ==
  /\ errCalls' = [errCalls EXCEPT ![ph] = Append(@, err)]
  /\ IF err = NoErr
     THEN UNCHANGED <<runErr, errOnce, errWrites>>
     ELSE IF ~errOnce[ph]
     THEN /\ runErr' = [runErr EXCEPT ![ph] = err]
          /\ errOnce' = [errOnce EXCEPT ![ph] = TRUE]
          /\ errWrites' = [errWrites EXCEPT ![ph] = @ + 1]
     ELSE UNCHANGED <<runErr, errOnce, errWrites>>

\* ------------------------------------------------------------------ RunClient
\* RunClient after a phase function has returned (metrics, out), with the
\* check after runDownload left out.
RunClientSkipsCheck(ph, metrics, out) ==
  IF out # NoErr /\ ph # "download"
  THEN /\ ret' = [res |-> ZeroResult, err |-> out]
       /\ pc' = PcReturned
       /\ UNCHANGED <<pingRes, downloadRes>>
  ELSE CASE ph = "ping" ->
              /\ pingRes' = metrics
              /\ pc' = At("download", "setup")
              /\ UNCHANGED <<downloadRes, ret>>
         [] ph = "download" ->
              /\ downloadRes' = metrics
              /\ pc' = At("upload", "setup")
              /\ UNCHANGED <<pingRes, ret>>
         [] ph = "upload" ->
              /\ ret' = [res |-> [Ping |-> pingRes, Download |-> downloadRes,
                                  Upload |-> metrics],
                         err |-> NoErr]
              /\ pc' = PcReturned
              /\ UNCHANGED <<pingRes, downloadRes>>

\* RunClient after a phase function has returned (metrics, out): on an error
\* it returns Result{} and the error, else it goes on to the next phase or
\* returns the assembled Result.
RunClientNext(ph, metrics, out) ==
  IF out # NoErr
  THEN /\ ret' = [res |-> ZeroResult, err |-> out]
       /\ pc' = PcReturned
       /\ UNCHANGED <<pingRes, downloadRes>>
  ELSE CASE ph = "ping" ->
              /\ pingRes' = metrics
              /\ pc' = At("download", "setup")
              /\ UNCHANGED <<downloadRes, ret>>
         [] ph = "download" ->
              /\ downloadRes' = metrics
              /\ pc' = At("upload", "setup")
              /\ UNCHANGED <<pingRes, ret>>
         [] ph = "upload" ->
              /\ ret' = [res |-> [Ping |-> pingRes, Download |-> downloadRes,
                                  Upload |-> metrics],
                         err |-> NoErr]
              /\ pc' = PcReturned
              /\ UNCHANGED <<pingRes, downloadRes>>

\* cfg = normalizeClientConfig(cfg); client := &http.Client{...}
RunClientStart ==
  /\ pc = PcStart
  /\ cfg' = normalizeClientConfig(cfg)
  /\ pc' = PcPing
  /\ UNCHANGED <<histVars, pingVars, runVars, errVars, phaseVars, workerVars, byteVars,
                 sampler, sink, uiVars, lastCall>>

\* -------------------------------------------------------------------- runPing
\* The probes issued without waiting for the one in flight.
PingIssueConcurrent ==
  /\ pc = PcPing
  /\ requests["ping"] < cfg.PingCount
  /\ pingInFlight' = TRUE
  /\ requests' = [requests EXCEPT !["ping"] = @ + 1]
  /\ UNCHANGED <<ticks, cfg, pc, results, sleeps, runVars, errVars, phaseVars,
                 workerVars, byteVars, sampler, sink, uiVars, lastCall>>

\* client.Get(url) is called for probe i = Len(results).
PingIssue ==
  /\ pc = PcPing
  /\ ~pingInFlight
  /\ Len(results) < cfg.PingCount
  /\ pingInFlight' = TRUE
  /\ requests' = [requests EXCEPT !["ping"] = @ + 1]
  /\ UNCHANGED <<ticks, cfg, pc, results, sleeps, runVars, errVars, phaseVars, workerVars,
                 byteVars, sampler, sink, uiVars, lastCall>>

\* The probe answers after d ms: the sample is appended, the event is
\* reported and, if i < cfg.PingCount-1, the loop sleeps.
PingProbeOK(d) ==
  /\ pc = PcPing
  /\ pingInFlight
  /\ cfg.URLValid
  /\ results' = Append(results, d)
  /\ sink' = reportProgress(cfg, "ping",
                            ((Len(results) + 1) * 100) \div cfg.PingCount, 0, d)
  /\ pingInFlight' = FALSE
  /\ sleeps' = IF Len(results) < cfg.PingCount - 1 THEN sleeps + 1 ELSE sleeps
  /\ UNCHANGED <<histVars, cfg, pc, runVars, errVars, phaseVars, workerVars, byteVars,
                 sampler, uiVars, lastCall>>

\* A failed probe that is issued again.
PingProbeFailRetries ==
  /\ pc = PcPing
  /\ pingInFlight
  /\ pingInFlight' = FALSE
  /\ UNCHANGED <<histVars, cfg, pc, results, sleeps, runVars, errVars, phaseVars,
                 workerVars, byteVars, sampler, sink, uiVars, lastCall>>

\* client.Get returns an error: runPing returns PingMetrics{}, err.
PingProbeFail ==
  /\ pc = PcPing
  /\ pingInFlight
  /\ pingInFlight' = FALSE
  /\ LET err == Err(IF cfg.URLValid THEN "transport" ELSE "url", "ping", 0)
     IN  /\ phaseErr' = [phaseErr EXCEPT !["ping"] = err]
         /\ RunClientNext("ping", ZeroPing, err)
  /\ results' = <<>>
  /\ UNCHANGED <<histVars, cfg, sleeps, errVars, phaseVars, workerVars, byteVars,
                 sampler, sink, uiVars, lastCall>>

\* The loop has ended: the no-data guard, the sort and the metrics; the
\* slice of samples is dropped with runPing's frame.
PingReturn ==
  /\ pc = PcPing
  /\ ~pingInFlight
  /\ Len(results) >= cfg.PingCount
  /\ LET err == IF Len(results) = 0 THEN Err("nodata", "ping", 0) ELSE NoErr
     IN  /\ phaseErr' = [phaseErr EXCEPT !["ping"] = err]
         /\ RunClientNext("ping",
                          IF err = NoErr THEN PingMetricsOf(results) ELSE ZeroPing,
                          err)
  /\ results' = <<>>
  /\ UNCHANGED <<histVars, cfg, pingInFlight, sleeps, errVars, phaseVars, workerVars,
                 byteVars, sampler, sink, uiVars, lastCall>>

\* ------------------------------------------- runDownload / runUpload: frame
\* ctx, the counter, the error slot, the wait group, start; the sampler
\* goroutine is started when a sink is configured.
PhaseSetup(ph) ==
  /\ pc = At(ph, "setup")
  /\ ctx' = [ctx EXCEPT ![ph] = "live"]
  /\ IF cfg.Progress
     THEN /\ progressDone' = [progressDone EXCEPT ![ph] = "open"]
          /\ sampler' = [sampler EXCEPT ![ph] = "select"]
     ELSE UNCHANGED <<progressDone, sampler>>
  /\ pc' = At(ph, "go")
  /\ UNCHANGED <<histVars, cfg, pingVars, runVars, errVars, wg, spawned, elapsed,
                 workerVars, byteVars, sink, uiVars, lastCall>>

\* for i := 0; i < cfg.Streams; i++ { wg.Go(...) }
PhaseSpawnNoLimit(ph) ==
  /\ pc = At(ph, "go")
  /\ spawned[ph] < Cardinality(Workers)
  /\ spawned' = [spawned EXCEPT ![ph] = @ + 1]
  /\ wg' = [wg EXCEPT ![ph] = @ + 1]
  /\ worker' = [worker EXCEPT ![ph][spawned[ph] + 1] = "spawned"]
  /\ UNCHANGED <<histVars, cfg, pc, pingVars, runVars, errVars, ctx, elapsed,
                 progressDone, body, uploadCtx, count, readBytes, outcome,
                 byteVars, sampler, sink, uiVars, lastCall>>

PhaseSpawn(ph) ==
  /\ pc = At(ph, "go")
  /\ spawned[ph] < cfg.Streams
  /\ spawned' = [spawned EXCEPT ![ph] = @ + 1]
  /\ wg' = [wg EXCEPT ![ph] = @ + 1]
  /\ worker' = [worker EXCEPT ![ph][spawned[ph] + 1] = "spawned"]
  /\ UNCHANGED <<histVars, cfg, pc, pingVars, runVars, errVars, ctx, elapsed,
                 progressDone, body, uploadCtx, count, readBytes, outcome,
                 byteVars, sampler, sink, uiVars, lastCall>>

\* wg.Wait() returns when the counter is zero.
WaitReturnsEarly(n) == n <= 1

WaitReturns(n) == n = 0

\* The error checks placed before the final progress event.
PhaseWaitChecksFirst(ph, el) ==
  /\ pc = At(ph, "go")
  /\ spawned[ph] >= cfg.Streams
  /\ WaitReturns(wg[ph])
  /\ elapsed' = [elapsed EXCEPT ![ph] = el]
  /\ pc' = IF cfg.Progress /\ runErr[ph] = NoErr /\ totalBytes[ph] # 0
           THEN At(ph, "close")
           ELSE At(ph, "return")
  /\ UNCHANGED <<histVars, cfg, pingVars, runVars, errVars, ctx, wg, spawned,
                 progressDone, workerVars, byteVars, sampler, sink, uiVars, lastCall>>

\* wg.Wait(); elapsed := time.Since(start)
PhaseWait(ph, el) ==
  /\ pc = At(ph, "go")
  /\ spawned[ph] >= cfg.Streams
  /\ WaitReturns(wg[ph])
  /\ elapsed' = [elapsed EXCEPT ![ph] = el]
  /\ pc' = IF cfg.Progress THEN At(ph, "close") ELSE At(ph, "return")
  /\ UNCHANGED <<histVars, cfg, pingVars, runVars, errVars, ctx, wg, spawned,
                 progressDone, workerVars, byteVars, sampler, sink, uiVars, lastCall>>

\* close(progressDone)
PhaseClose(ph) ==
  /\ pc = At(ph, "close")
  /\ progressDone' = [progressDone EXCEPT ![ph] = IF @ # "nil" THEN "closed" ELSE @]
  /\ pc' = At(ph, "final")
  /\ UNCHANGED <<histVars, cfg, pingVars, runVars, errVars, ctx, wg, spawned, elapsed,
                 workerVars, byteVars, sampler, sink, uiVars, lastCall>>

\* reportProgress(cfg, phase, 100, bytesToMbps(totalBytes, elapsed), 0)
PhaseFinal(ph) ==
  /\ pc = At(ph, "final")
  /\ sink' = reportProgress(cfg, ph, 100, bytesToMbps(totalBytes[ph], elapsed[ph]), 0)
  /\ pc' = At(ph, "return")
  /\ UNCHANGED <<histVars, cfg, pingVars, runVars, errVars, phaseVars, workerVars,
                 byteVars, sampler, uiVars, lastCall>>

\* The error the phase function returns (NoErr: it returns its metrics).
PhaseOutcomeNoDataFirst(ph, err, total) ==
  IF total = 0 THEN Err("nodata", ph, 0)
  ELSE IF err # NoErr THEN err
  ELSE NoErr

PhaseOutcomeNoGuard(ph, err, total) ==
  IF err # NoErr THEN err ELSE NoErr

PhaseOutcome(ph, err, total) ==
  IF err # NoErr THEN err
  ELSE IF total = 0 THEN Err("nodata", ph, 0)
  ELSE NoErr

\* defer cancel()
Cancel(c) == IF c = "live" THEN "canceled" ELSE c

\* The phase function's error checks and return, and RunClient's next step.
\* The read history of the download workers ends with their frames.
PhaseReturn(ph) ==
  /\ pc = At(ph, "return")
  /\ LET err == PhaseOutcome(ph, runErr[ph], totalBytes[ph])
     IN  /\ phaseErr' = [phaseErr EXCEPT ![ph] = err]
         /\ RunClientNext(ph,
                          IF err = NoErr
                          THEN SpeedMetricsOf(totalBytes[ph], elapsed[ph])
                          ELSE ZeroSpeed,
                          err)
  /\ ctx' = [ctx EXCEPT ![ph] = Cancel(@)]
  /\ readBytes' = IF ph = "download" THEN [w \in Workers |-> 0] ELSE readBytes
  /\ UNCHANGED <<histVars, cfg, pingVars, errVars, wg, spawned, elapsed,
                 progressDone, worker, body, uploadCtx, count, outcome,
                 byteVars, sampler, sink, uiVars, lastCall>>

\* The phase deadline (Duration + 5s) fires; contexts derived from it are
\* done too.  Once the last worker has returned nothing reads the context,
\* so the deadline is followed up to the join only.
PhaseDeadlineUploadOnly(ph) ==
  /\ ph = "upload"
  /\ pc = At(ph, "go")
  /\ spawned[ph] < cfg.Streams \/ wg[ph] > 0
  /\ ctx[ph] = "live"
  /\ ctx' = [ctx EXCEPT ![ph] = "deadline"]
  /\ uploadCtx' = [w \in Workers |->
                     IF uploadCtx[w] = "live" THEN "deadline" ELSE uploadCtx[w]]
  /\ UNCHANGED <<histVars, cfg, pc, pingVars, runVars, errVars, wg, spawned, elapsed,
                 progressDone, worker, body, count, readBytes, outcome,
                 byteVars, sampler, sink, uiVars, lastCall>>

PhaseDeadline(ph) ==
  /\ pc = At(ph, "go")
  /\ spawned[ph] < cfg.Streams \/ wg[ph] > 0
  /\ ctx[ph] = "live"
  /\ ctx' = [ctx EXCEPT ![ph] = "deadline"]
  /\ uploadCtx' = IF ph = "upload"
                  THEN [w \in Workers |->
                          IF uploadCtx[w] = "live" THEN "deadline" ELSE uploadCtx[w]]
                  ELSE uploadCtx
  /\ UNCHANGED <<histVars, cfg, pc, pingVars, runVars, errVars, wg, spawned, elapsed,
                 progressDone, worker, body, count, readBytes, outcome,
                 byteVars, sampler, sink, uiVars, lastCall>>

\* ------------------------------------------------------------ progress sampler
\* A sampler that reads the counter with atomic.SwapInt64(&totalBytes, 0).
SamplerTickSwaps(ph, el) ==
  /\ sampler[ph] = "select"
  /\ ticks < MaxTicks
  /\ ticks' = ticks + 1
  /\ sink' = reportProgress(cfg, ph,
               IF ph = "download"
               THEN percentDone(totalBytes[ph], PerStreamBytes * cfg.Streams)
               ELSE percentElapsed(el, Duration),
               bytesToMbps(totalBytes[ph], el), 0)
  /\ totalBytes' = [totalBytes EXCEPT ![ph] = 0]
  /\ UNCHANGED <<requests, sampler, cfg, pc, pingVars, runVars, errVars, phaseVars,
                 workerVars, lateBytes, uiVars, lastCall>>

\* case <-ticker.C: load the counter, take the elapsed time, report.
SamplerTick(ph, el) ==
  /\ sampler[ph] = "select"
  /\ ticks < MaxTicks
  /\ ticks' = ticks + 1
  /\ sink' = reportProgress(cfg, ph,
               IF ph = "download"
               THEN percentDone(totalBytes[ph], PerStreamBytes * cfg.Streams)
               ELSE percentElapsed(el, Duration),
               bytesToMbps(totalBytes[ph], el), 0)
  /\ UNCHANGED <<requests, sampler, cfg, pc, pingVars, runVars, errVars, phaseVars, workerVars,
                 byteVars, uiVars, lastCall>>

\* case <-progressDone: return
SamplerExit(ph) ==
  /\ sampler[ph] = "select"
  /\ progressDone[ph] = "closed"
  /\ sampler' = [sampler EXCEPT ![ph] = "exit"]
  /\ UNCHANGED <<histVars, cfg, pc, pingVars, runVars, errVars, phaseVars, workerVars,
                 byteVars, sink, uiVars, lastCall>>

\* ----------------------------------------------------------- shared counter
\* atomic.StoreInt64 in place of atomic.AddInt64
StoreInt64(total, n) == n

\* atomic.AddInt64(&totalBytes, n)
AddInt64(total, n) == total + n

\* The counter and its history after a worker of ph has counted n bytes.
CountBytes(ph, n) ==
  /\ totalBytes' = [totalBytes EXCEPT ![ph] = IF n > 0 THEN AddInt64(@, n) ELSE @]
  /\ lateBytes' = [lateBytes EXCEPT ![ph] = IF runErr[ph] # NoErr THEN @ + n ELSE @]

\* The worker goroutine w of ph returns: wg.Done().
WorkerReturns(ph, w, how) ==
  /\ worker' = [worker EXCEPT ![ph][w] = "done"]
  /\ outcome' = [outcome EXCEPT ![ph][w] = how]
  /\ wg' = [wg EXCEPT ![ph] = @ - 1]

\* ctx.Err() of a context that is done
CtxErr(c) == IF c = "deadline" THEN "deadline" ELSE "canceled"

\* ------------------------------------------------------ runDownload: workers
\* What a fatal error of one worker does to the shared context: nothing.
ctxAfterFatalErrCancel(c) == Cancel(c)

ctxAfterFatalErr(c) == c

\* http.NewRequestWithContext(ctx, GET, url, nil); client.Do(req) is called.
DownloadRequest(w) ==
  /\ worker["download"][w] = "spawned"
  /\ IF cfg.URLValid
     THEN /\ worker' = [worker EXCEPT !["download"][w] = "do"]
          /\ requests' = [requests EXCEPT !["download"] = @ + 1]
          /\ UNCHANGED <<errVars, wg, outcome, ctx>>
     ELSE /\ setRunErr("download", Err("url", "download", w))
          /\ WorkerReturns("download", w, "url")
          /\ ctx' = [ctx EXCEPT !["download"] = ctxAfterFatalErr(@)]
          /\ UNCHANGED requests
  /\ UNCHANGED <<ticks, cfg, pc, pingVars, runVars, spawned, elapsed, progressDone,
                 body, uploadCtx, count, readBytes, byteVars, sampler, sink, uiVars, lastCall>>

\* client.Do returns the response: its body will deliver size bytes.
DownloadDoOK(w, size) ==
  /\ worker["download"][w] = "do"
  /\ ctx["download"] = "live"
  /\ worker' = [worker EXCEPT !["download"][w] = "read"]
  /\ body' = [body EXCEPT ![w] = size]
  /\ UNCHANGED <<histVars, cfg, pc, pingVars, runVars, errVars, phaseVars, uploadCtx,
                 count, readBytes, outcome, byteVars, sampler, sink, uiVars, lastCall>>

\* The errors client.Do may return to download worker w: the context's when
\* it is done, and otherwise a transport error or the expiry of
\* client.Timeout, which is a deadline error too.
DownloadDoErrKinds ==
  IF ctx["download"] = "live" THEN {"transport", "deadline"}
  ELSE {CtxErr(ctx["download"])}

\* client.Do returns an error.
DownloadDoFail(w, kind) ==
  /\ worker["download"][w] = "do"
  /\ kind \in DownloadDoErrKinds
  /\ setRunErr("download", Err(kind, "download", w))
  /\ WorkerReturns("download", w, kind)
  /\ ctx' = [ctx EXCEPT !["download"] = ctxAfterFatalErr(@)]
  /\ UNCHANGED <<histVars, cfg, pc, pingVars, runVars, spawned, elapsed, progressDone,
                 body, uploadCtx, count, readBytes, byteVars, sampler, sink, uiVars, lastCall>>

\* The error kinds the transport and the contexts produce.
ErrKinds == {"transport", "deadline", "canceled"}

\* The results of a Read: n bytes and the error e.
ReadResults == [n : 0..ChunkSize, e : {"nil", "eof"} \cup ErrKinds]

\* What resp.Body.Read may return to worker w.
ReadOutcomes(w) ==
  IF ctx["download"] # "live"
  THEN {[n |-> 0, e |-> CtxErr(ctx["download"])]}
  ELSE {r \in [n : 0..Min2(ChunkSize, body[w]),
                e : {"nil", "eof", "transport", "deadline"}] :
          /\ r.e = "nil" => r.n >= 1
          /\ r.e = "eof" => r.n = body[w]}

\* One iteration of the read loop: read, count, and on an error leave the loop.
DownloadRead(w, r) ==
  /\ worker["download"][w] = "read"
  /\ r \in ReadOutcomes(w)
  /\ CountBytes("download", r.n)
  /\ readBytes' = [readBytes EXCEPT ![w] = @ + r.n]
  /\ body' = [body EXCEPT ![w] = @ - r.n]
  /\ IF r.e = "nil"
     THEN UNCHANGED <<errVars, worker, outcome, wg, ctx>>
     ELSE /\ WorkerReturns("download", w, r.e)
          /\ IF IsEOF(Err(r.e, "download", w))
             THEN UNCHANGED <<errVars, ctx>>
             ELSE /\ setRunErr("download", Err(r.e, "download", w))
                  /\ ctx' = [ctx EXCEPT !["download"] = ctxAfterFatalErr(@)]
  /\ UNCHANGED <<histVars, cfg, pc, pingVars, runVars, spawned, elapsed, progressDone,
                 uploadCtx, count, sampler, sink, uiVars, lastCall>>

\* Read without the check of the context.
timedReaderReadIgnoresCtx(c, lenp) == [n |-> Min2(lenp, ChunkSize), err |-> "nil"]

\* -------------------------------------------------------- runUpload: workers
\* timedReader.Read(p) on a context in state c with len(p) = lenp
timedReaderRead(c, lenp) ==
  IF c # "live" THEN [n |-> 0, err |-> CtxErr(c)]
  ELSE [n |-> Min2(lenp, ChunkSize), err |-> "nil"]

\* uploadCtx, the reader and the request are made; client.Do(req) is called.
UploadRequest(w) ==
  /\ worker["upload"][w] = "spawned"
  /\ IF cfg.URLValid
     THEN /\ worker' = [worker EXCEPT !["upload"][w] = "do"]
          /\ uploadCtx' = [uploadCtx EXCEPT ![w] =
                             IF ctx["upload"] = "live" THEN "live" ELSE ctx["upload"]]
          /\ requests' = [requests EXCEPT !["upload"] = @ + 1]
          /\ UNCHANGED <<errVars, wg, outcome>>
     ELSE /\ setRunErr("upload", Err("url", "upload", w))
          /\ WorkerReturns("upload", w, "url")
          /\ uploadCtx' = [uploadCtx EXCEPT ![w] =
                             IF ctx["upload"] = "live" THEN "canceled" ELSE ctx["upload"]]
          /\ UNCHANGED requests
  /\ UNCHANGED <<ticks, cfg, pc, pingVars, runVars, ctx, spawned, elapsed,
                 progressDone, body, count, readBytes, byteVars, sampler, sink, uiVars, lastCall>>

\* A read of a timedReader whose total is nil: only its own count moves.
UploadBodyReadNilTotal(w, lenp) ==
  /\ worker["upload"][w] = "do"
  /\ count[w] < MaxBodyReads * ChunkSize
  /\ LET r == timedReaderRead(uploadCtx[w], lenp)
     IN  count' = [count EXCEPT ![w] = AddInt64(@, r.n)]
  /\ UNCHANGED <<histVars, cfg, pc, pingVars, runVars, errVars, phaseVars, worker,
                 body, uploadCtx, readBytes, outcome, byteVars, sampler, sink, uiVars, lastCall>>

\* The transport reads the request body: one call of timedReader.Read.
UploadBodyRead(w, lenp) ==
  /\ worker["upload"][w] = "do"
  /\ count[w] < MaxBodyReads * ChunkSize
  /\ LET r == timedReaderRead(uploadCtx[w], lenp)
     IN  /\ count' = [count EXCEPT ![w] = AddInt64(@, r.n)]
         /\ CountBytes("upload", r.n)
  /\ UNCHANGED <<histVars, cfg, pc, pingVars, runVars, errVars, phaseVars, worker, body,
                 uploadCtx, readBytes, outcome, sampler, sink, uiVars, lastCall>>

\* client.Do returns a response; the worker drains and closes it and returns.
UploadDoOK(w) ==
  /\ worker["upload"][w] = "do"
  /\ uploadCtx[w] = "live"
  /\ WorkerReturns("upload", w, "ok")
  /\ uploadCtx' = [uploadCtx EXCEPT ![w] = Cancel(@)]
  /\ UNCHANGED <<histVars, cfg, pc, pingVars, runVars, errVars, ctx, spawned, elapsed,
                 progressDone, body, count, readBytes, byteVars, sampler, sink, uiVars, lastCall>>

\* The errors client.Do may return to upload worker w.
DoErrKinds(w) ==
  IF uploadCtx[w] = "live" THEN {"transport", "canceled"}
  ELSE {CtxErr(uploadCtx[w])}

\* client.Do returns an error: an expected cancellation ends the worker
\* silently, any other error goes to the error slot.
UploadDoFail(w, kind) ==
  /\ worker["upload"][w] = "do"
  /\ kind \in DoErrKinds(w)
  /\ IF IsExpectedCancellation(Err(kind, "upload", w))
     THEN UNCHANGED errVars
     ELSE setRunErr("upload", Err(kind, "upload", w))
  /\ WorkerReturns("upload", w, kind)
  /\ uploadCtx' = [uploadCtx EXCEPT ![w] = Cancel(@)]
  /\ UNCHANGED <<histVars, cfg, pc, pingVars, runVars, ctx, spawned, elapsed,
                 progressDone, body, count, readBytes, byteVars, sampler, sink, uiVars, lastCall>>

\* The worker's own deadline (Duration) fires.
UploadDeadline(w) ==
  /\ uploadCtx[w] = "live"
  /\ uploadCtx' = [uploadCtx EXCEPT ![w] = "deadline"]
  /\ UNCHANGED <<histVars, cfg, pc, pingVars, runVars, errVars, phaseVars, worker, body,
                 count, readBytes, outcome, byteVars, sampler, sink, uiVars, lastCall>>

\* ------------------------------------------------------------- specification
Next ==
  \/ RunClientStart
  \/ PingIssue
  \/ \E d \in 1..MaxRTT : PingProbeOK(d)
  \/ PingProbeFail
  \/ PingReturn
  \/ \E ph \in Phases : PhaseSetup(ph)
  \/ \E ph \in Phases : PhaseSpawn(ph)
  \/ \E ph \in Phases, el \in Elapsed : PhaseWait(ph, el)
  \/ \E ph \in Phases : PhaseClose(ph)
  \/ \E ph \in Phases : PhaseFinal(ph)
  \/ \E ph \in Phases : PhaseReturn(ph)
  \/ \E ph \in Phases : PhaseDeadline(ph)
  \/ \E ph \in Phases, el \in Elapsed : SamplerTick(ph, el)
  \/ \E ph \in Phases : SamplerExit(ph)
  \/ \E w \in Workers : DownloadRequest(w)
  \/ \E w \in Workers, size \in 0..PerStreamBytes : DownloadDoOK(w, size)
  \/ \E w \in Workers, kind \in ErrKinds : DownloadDoFail(w, kind)
  \/ \E w \in Workers, r \in ReadResults : DownloadRead(w, r)
  \/ \E w \in Workers : UploadRequest(w)
  \/ \E w \in Workers, lenp \in 1..(ChunkSize + 1) : UploadBodyRead(w, lenp)
  \/ \E w \in Workers : UploadDoOK(w)
  \/ \E w \in Workers, kind \in ErrKinds : UploadDoFail(w, kind)
  \/ \E w \in Workers : UploadDeadline(w)

Spec == Init /\ [][Next]_vars

\* ------------------------------------------------- scheduling and deadlines
\* The Go scheduler runs every goroutine that can take a step.
Scheduling ==
  /\ WF_vars(RunClientStart)
  /\ WF_vars(PingIssue)
  /\ WF_vars(PingReturn)
  /\ \A ph \in Phases :
       /\ WF_vars(PhaseSetup(ph))
       /\ WF_vars(PhaseSpawn(ph))
       /\ WF_vars(\E el \in Elapsed : PhaseWait(ph, el))
       /\ WF_vars(PhaseClose(ph))
       /\ WF_vars(PhaseFinal(ph))
       /\ WF_vars(PhaseReturn(ph))
  /\ \A w \in Workers :
       /\ WF_vars(DownloadRequest(w))
       /\ WF_vars(UploadRequest(w))

\* Every deadline fires, and a request whose context is done or whose
\* client timeout has run out returns: client.Get by http.Client.Timeout,
\* client.Do and Read of a phase by the phase's contexts.  While its context
\* is live a request of a phase may stay unanswered.
Deadlines ==
  /\ WF_vars((\E d \in 1..MaxRTT : PingProbeOK(d)) \/ PingProbeFail)
  /\ \A ph \in Phases : WF_vars(PhaseDeadline(ph))
  /\ \A w \in Workers :
       /\ WF_vars(UploadDeadline(w))
       /\ WF_vars(ctx["download"] # "live" /\ \E kind \in ErrKinds : DownloadDoFail(w, kind))
       /\ WF_vars(ctx["download"] # "live" /\ \E r \in ReadResults : DownloadRead(w, r))
       /\ WF_vars(uploadCtx[w] # "live" /\ \E kind \in ErrKinds : UploadDoFail(w, kind))

\* The configurations that are left as they are by normalizeClientConfig.
InitNormalized ==
  /\ cfg \in [BaseURL : {DefaultClientBase}, Duration : {DefaultDuration},
              Streams : 1..MaxStreams, ChunkSize : {DefaultChunkSize},
              DownloadMB : {DefaultDownloadMB}, PingCount : 1..MaxPingCount,
              Timeout : {DefaultTimeout}, Progress : BOOLEAN, URLValid : BOOLEAN]
  /\ InitRest

FairSpec == InitNormalized /\ [][Next]_vars /\ Scheduling /\ Deadlines

\* ------------------------------------------- setRunErr under arbitrary calls
\* A phase whose workers call setRunErr in every order, with every argument
\* a caller could pass, the nil error included.
ErrArgs ==
  {NoErr} \cup {Err(kind, "download", w) : kind \in {"transport", "deadline"},
                                           w \in Workers}

InitSetRunErr ==
  /\ cfg = [BaseURL |-> DefaultClientBase, Duration |-> DefaultDuration,
            Streams |-> Cardinality(Workers), ChunkSize |-> DefaultChunkSize,
            DownloadMB |-> DefaultDownloadMB, PingCount |-> 1,
            Timeout |-> DefaultTimeout, Progress |-> FALSE, URLValid |-> TRUE]
  /\ InitRest

CallSetRunErr(err) ==
  /\ Len(errCalls["download"]) < MaxCalls
  /\ setRunErr("download", err)
  /\ UNCHANGED <<cfg, pc, pingVars, runVars, phaseVars, workerVars, byteVars,
                 histVars, sampler, sink, uiVars, lastCall>>

NextSetRunErr == \E err \in ErrArgs : CallSetRunErr(err)

SpecSetRunErr == InitSetRunErr /\ [][NextSetRunErr]_vars

\* ------------------------------------------------- runPing on its own
\* The round-trip times time.Since(start) may give, in ms.
PingRTTs == {10, 20, 30}

InitPing ==
  /\ cfg \in [BaseURL : {DefaultClientBase}, Duration : {DefaultDuration},
              Streams : {DefaultStreams}, ChunkSize : {DefaultChunkSize},
              DownloadMB : {DefaultDownloadMB}, PingCount : 0..MaxPingSamples,
              Timeout : {DefaultTimeout}, Progress : BOOLEAN, URLValid : BOOLEAN]
  /\ InitRest

NextPing ==
  \/ RunClientStart
  \/ PingIssue
  \/ \E d \in PingRTTs : PingProbeOK(d)
  \/ PingProbeFail
  \/ PingReturn

SpecPing == InitPing /\ [][NextPing]_vars

\* ------------------------------- normalizeClientConfig on every configuration
\* The values a caller may put in a numeric field, the chunk sizes around
\* the smallest one accepted, and the base URLs of up to MaxURLLen characters.
Fields == (-1)..MaxField
ChunkSizes == {0} \cup ((MinChunkSize - 1)..(MinChunkSize + MaxField))
URLChars == {"a", "/"}
URLs == UNION {[1..n -> URLChars] : n \in 0..MaxURLLen}

InitNormalize ==
  /\ cfg \in [BaseURL : URLs, Duration : Fields, Streams : Fields,
              ChunkSize : ChunkSizes, DownloadMB : Fields, PingCount : Fields,
              Timeout : Fields, Progress : {FALSE}, URLValid : {TRUE}]
  /\ InitRest

NextNormalize == RunClientStart

SpecNormalize == InitNormalize /\ [][NextNormalize]_vars

\* --------------------------------------- reportProgress under arbitrary calls
\* The raw values a caller may compute: around zero, and for a percentage
\* around 100 too.
RawValues == (-MaxRaw)..MaxRaw
RawPercents == RawValues \cup ((100 - MaxRaw)..(100 + MaxRaw))
Delivered == SumFn(sink.n, AllPhases)

InitReportProgress ==
  /\ cfg \in [BaseURL : {DefaultClientBase}, Duration : {DefaultDuration},
              Streams : {DefaultStreams}, ChunkSize : {DefaultChunkSize},
              DownloadMB : {DefaultDownloadMB}, PingCount : {DefaultPingCount},
              Timeout : {DefaultTimeout}, Progress : BOOLEAN, URLValid : {TRUE}]
  /\ InitRest

CallReportProgress(phase, percent, mbps, pingMs) ==
  /\ Delivered < MaxReports
  /\ sink' = reportProgress(cfg, phase, percent, mbps, pingMs)
  /\ UNCHANGED <<cfg, pc, pingVars, runVars, errVars, phaseVars, workerVars, byteVars,
                 histVars, sampler, uiVars, lastCall>>

NextReportProgress ==
  \E phase \in AllPhases, percent \in RawPercents, mbps \in RawValues,
     pingMs \in RawValues : CallReportProgress(phase, percent, mbps, pingMs)

SpecReportProgress == InitReportProgress /\ [][NextReportProgress]_vars

\* ------------------------------------- main: the sink of the terminal program
\* A send on progressCh that waits for room, with no default case.
sendProgressBlocking(update) ==
  /\ Len(progressCh) < ProgressChCap
  /\ progressCh' = Append(progressCh, update)
  /\ UNCHANGED dropped

\* select { case progressCh <- update: default: }
sendProgress(update) ==
  IF Len(progressCh) < ProgressChCap
  THEN /\ progressCh' = Append(progressCh, update)
       /\ UNCHANGED dropped
  ELSE /\ UNCHANGED progressCh
       /\ dropped' = dropped + 1

\* cfg.Progress = func(update) { sendProgress(update) }
InitSendProgress ==
  /\ cfg = [BaseURL |-> DefaultClientBase, Duration |-> DefaultDuration,
            Streams |-> DefaultStreams, ChunkSize |-> DefaultChunkSize,
            DownloadMB |-> DefaultDownloadMB, PingCount |-> DefaultPingCount,
            Timeout |-> DefaultTimeout, Progress |-> TRUE, URLValid |-> TRUE]
  /\ InitRest

\* The measurement path reports: reportProgress hands the update to the
\* sink, which is main's closure.  The k-th report of a phase carries k parts
\* in MaxSends of the phase's work; the download phase reports before the
\* upload phase does.
MeasureReport(ph) ==
  /\ Delivered < MaxSends
  /\ ph = "download" => sink.n["upload"] = 0
  /\ sink' = reportProgress(cfg, ph, percentDone(sink.n[ph] + 1, MaxSends), 0, 0)
  /\ sendProgress(sink'.last)
  /\ UNCHANGED <<cfg, pc, pingVars, runVars, errVars, phaseVars, workerVars, byteVars,
                 histVars, sampler, chClosed, lastCall>>

\* listenProgress: update, ok := <-ch
ListenProgress ==
  /\ progressCh # <<>>
  /\ progressCh' = Tail(progressCh)
  /\ UNCHANGED <<cfg, pc, pingVars, runVars, errVars, phaseVars, workerVars, byteVars,
                 histVars, sampler, sink, dropped, chClosed, lastCall>>

NextSendProgress ==
  \/ \E ph \in Phases : MeasureReport(ph)
  \/ ListenProgress

\* The measurement path is scheduled; the terminal program may never listen.
SpecSendProgress ==
  /\ InitSendProgress
  /\ [][NextSendProgress]_vars
  /\ WF_vars(\E ph \in Phases : MeasureReport(ph))

\* ------------------------------------------------ timedReader on its own
\* The readers of runUpload's workers, each over its own context and all
\* over the one shared counter.  rand.Read (crypto/rand, with the Go release
\* that sync.WaitGroup.Go requires) returns no error.
BufLens == 0..(ChunkSize + 2)

InitTimedReader ==
  /\ cfg \in [BaseURL : {DefaultClientBase}, Duration : {DefaultDuration},
              Streams : {MaxStreams}, ChunkSize : {DefaultChunkSize},
              DownloadMB : {DefaultDownloadMB}, PingCount : {DefaultPingCount},
              Timeout : {DefaultTimeout}, Progress : {FALSE}, URLValid : {TRUE}]
  /\ InitRest

\* uploadCtx is derived and the reader of worker w is made over it.
NewTimedReader(w) ==
  /\ uploadCtx[w] = "none"
  /\ uploadCtx' = [uploadCtx EXCEPT ![w] = "live"]
  /\ UNCHANGED <<histVars, cfg, pc, pingVars, runVars, errVars, phaseVars, worker, body,
                 count, readBytes, outcome, byteVars, sampler, sink, uiVars, lastCall>>

\* cancelUpload()
CancelUpload(w) ==
  /\ uploadCtx[w] = "live"
  /\ uploadCtx' = [uploadCtx EXCEPT ![w] = Cancel(@)]
  /\ UNCHANGED <<histVars, cfg, pc, pingVars, runVars, errVars, phaseVars, worker, body,
                 count, readBytes, outcome, byteVars, sampler, sink, uiVars, lastCall>>

\* reader.Read(p) with len(p) = lenp; the call and what it returned are recorded.
CallRead(w, lenp) ==
  /\ uploadCtx[w] # "none"
  /\ lastCall.k < MaxCalls
  /\ LET r == timedReaderRead(uploadCtx[w], lenp)
     IN  /\ count' = [count EXCEPT ![w] = AddInt64(@, r.n)]
         /\ CountBytes("upload", r.n)
         /\ lastCall' = [fn |-> "Read", k |-> lastCall.k + 1, args |-> <<w, lenp>>,
                         out |-> r]
  /\ UNCHANGED <<histVars, cfg, pc, pingVars, runVars, errVars, phaseVars, worker, body,
                 uploadCtx, readBytes, outcome, sampler, sink, uiVars>>

NextTimedReader ==
  \/ \E w \in Workers : NewTimedReader(w)
  \/ \E w \in Workers : UploadDeadline(w)
  \/ \E w \in Workers : CancelUpload(w)
  \/ \E w \in Workers, lenp \in BufLens : CallRead(w, lenp)

SpecTimedReader == InitTimedReader /\ [][NextTimedReader]_vars

\* ------------------------------------------ the statistics on their own
\* Durations in ms, of either sign; sample slices of up to MaxPingSamples
\* durations, and those among them that are in ascending order.
Durations == (0 - MaxDur)..MaxDur

RECURSIVE SeqsUpTo(_, _)
SeqsUpTo(S, n) ==
  IF n = 0 THEN {<<>>}
  ELSE LET shorter == SeqsUpTo(S, n - 1)
       IN  shorter \cup {Append(s, x) : s \in shorter, x \in S}

Slices == SeqsUpTo(Durations, MaxPingSamples)
IsAscending(s) == \A i \in 1..(Len(s) - 1) : s[i] <= s[i + 1]
AscendingSlices == {s \in Slices : IsAscending(s)}

\* Percentiles in steps of 1 / PDen, from below 0 to above 1.
PNums == (0 - 1)..(PDen + 1)

\* Byte totals per stream and elapsed times in ms.
StreamBytes == {0, 1, 125, 1000000}
ElapsedMs == {0 - 1, 0, 1, 1000, 2000}

InitStatistics ==
  /\ cfg \in [BaseURL : {DefaultClientBase}, Duration : {DefaultDuration},
              Streams : {DefaultStreams}, ChunkSize : {DefaultChunkSize},
              DownloadMB : {DefaultDownloadMB}, PingCount : {DefaultPingCount},
              Timeout : {DefaultTimeout}, Progress : {FALSE}, URLValid : {TRUE}]
  /\ InitRest

Called(fn, args, out) ==
  /\ lastCall.k = 0
  /\ lastCall' = [fn |-> fn, k |-> lastCall.k + 1, args |-> args, out |-> out]
  /\ UNCHANGED <<cfg, pc, pingVars, runVars, errVars, phaseVars, workerVars, byteVars,
                 histVars, sampler, sink, uiVars>>

CallAvgDuration(items) == Called("avgDuration", <<items>>, avgDuration(items))

CallPercentileDuration(items, pNum) ==
  Called("percentileDuration", <<items, pNum>>, percentileDuration(items, pNum, PDen))

CallBytesToMbps(bytes, duration) ==
  Called("bytesToMbps", <<bytes, duration>>, bytesToMbps(bytes, duration))

\* The end of runDownload and of runUpload: the counter that n workers have
\* each added bytes to is loaded and the metrics are made from it.
CallSpeedMetrics(n, bytes, el) ==
  LET total == SumFn([w \in 1..n |-> AddInt64(0, bytes)], 1..n)
  IN  Called("SpeedMetrics", <<n, bytes, el>>, SpeedMetricsOf(total, el))

NextStatistics ==
  \/ \E items \in Slices : CallAvgDuration(items)
  \/ \E items \in AscendingSlices, pNum \in PNums : CallPercentileDuration(items, pNum)
  \/ \E bytes \in StreamBytes, duration \in ElapsedMs : CallBytesToMbps(bytes, duration)
  \/ \E n \in 1..MaxStreams, bytes \in StreamBytes, el \in ElapsedMs :
       CallSpeedMetrics(n, bytes, el)

SpecStatistics == InitStatistics /\ [][NextStatistics]_vars

\* ------------------------------------------------- main: the terminal program
\* main sets cfg.Progress to its closure over sendProgress, so every update
\* that reaches the sink is a send on progressCh (non-blocking, see
\* sendProgress above; the queue's content is not followed here).  The flags
\* give the other fields as in Init.
InitMain ==
  /\ cfg \in [BaseURL : {DefaultClientBase}, Duration : {DefaultDuration},
              Streams : 0..MaxStreams, ChunkSize : {DefaultChunkSize},
              DownloadMB : {DefaultDownloadMB}, PingCount : 0..MaxPingCount,
              Timeout : {DefaultTimeout}, Progress : {TRUE}, URLValid : BOOLEAN]
  /\ InitRest

\* RunClient has returned: its goroutine sends resultMsg or errMsg, Update
\* answers tea.Quit, program.Run returns and main executes close(progressCh).
\* Update quits on no other message.
MainClose ==
  /\ pc = PcReturned
  /\ ~chClosed
  /\ chClosed' = TRUE
  /\ UNCHANGED <<cfg, pc, pingVars, runVars, errVars, phaseVars, workerVars, byteVars,
                 histVars, sampler, sink, progressCh, dropped, lastCall>>

NextMain ==
  \/ Next
  \/ MainClose

SpecMain == InitMain /\ [][NextMain]_vars

\* ------------------------------------------------------------------- claims
Returned(ph) == phaseErr[ph] # Pending
Joined(ph) == pc.ph = ph /\ pc.at \in {"close", "final", "return"}
Started(ph) == {w \in Workers : worker[ph][w] # "idle"}
Running(ph) == {w \in Workers : worker[ph][w] \notin {"idle", "done"}}
Succeeded == pc = PcReturned /\ ret.err = NoErr

\* C1: the phases run in the order ping, download, upload: a download worker
\* exists or has issued its request only after the last ping probe has
\* completed, and an upload worker exists only after every download worker
\* has returned and the download phase's wg.Wait has returned.
C1_PhaseOrder ==
  /\ (Started("download") # {} \/ requests["download"] > 0)
       => /\ ~pingInFlight
          /\ requests["ping"] = cfg.PingCount
          /\ phaseErr["ping"] = NoErr
  /\ (Started("upload") # {} \/ requests["upload"] > 0)
       => /\ Running("download") = {}
          /\ Cardinality(Started("download")) = cfg.Streams
          /\ wg["download"] = 0
          /\ elapsed["download"] > 0
          /\ phaseErr["download"] = NoErr

C1_Witness ==
  /\ cfg.Streams = 2
  /\ worker["upload"][2] = "do"
  /\ \A w \in Workers : worker["download"][w] = "done"

\* C2: when a phase ends with an error, RunClient has returned exactly that
\* error with the zero Result, and no later phase was started: no worker of
\* it was spawned and no request of it was issued.
Later(ph) ==
  CASE ph = "ping" -> {"download", "upload"}
    [] ph = "download" -> {"upload"}
    [] ph = "upload" -> {}

C2_FailStops ==
  \A ph \in AllPhases :
    (Returned(ph) /\ phaseErr[ph] # NoErr)
      => /\ pc = PcReturned
         /\ ret = [res |-> ZeroResult, err |-> phaseErr[ph]]
         /\ \A l \in Later(ph) :
              /\ requests[l] = 0
              /\ spawned[l] = 0
              /\ Started(l) = {}
              /\ ~Returned(l)
              /\ ctx[l] = "none"

C2_Witness ==
  /\ phaseErr["download"] # NoErr
  /\ Returned("download")
  /\ pingRes # ZeroPing
  /\ ret.res = ZeroResult

\* C3: once a download or upload phase has returned, an error in the slot is
\* the error it returned, with empty metrics, whatever the counter holds; it
\* is never replaced by the no-data error.
C3_ErrDecides ==
  \A ph \in Phases :
    (Returned(ph) /\ runErr[ph] # NoErr)
      => /\ phaseErr[ph] = runErr[ph]
         /\ phaseErr[ph].kind # "nodata"
         /\ ret = [res |-> ZeroResult, err |-> runErr[ph]]
         /\ ph = "download" => downloadRes = ZeroSpeed

C3_Witness ==
  /\ cfg.Streams = 2
  /\ Returned("download")
  /\ \A w \in Workers : outcome["download"][w] = "transport"
  /\ totalBytes["download"] = 0
  /\ phaseErr["download"].kind = "transport"

\* C4: a download or upload phase that returned with an empty error slot and
\* a zero counter returned the no-data error; a phase that returned success
\* counted at least one byte, and a successful Result has Download.Bytes >= 1
\* and Upload.Bytes >= 1.
C4_NoData ==
  /\ \A ph \in Phases :
       Returned(ph) =>
         /\ (runErr[ph] = NoErr /\ totalBytes[ph] = 0)
              => phaseErr[ph] = Err("nodata", ph, 0)
         /\ phaseErr[ph] = NoErr => totalBytes[ph] >= 1
  /\ phaseErr["download"] = NoErr => downloadRes.Bytes >= 1
  /\ Succeeded => ret.res.Download.Bytes >= 1 /\ ret.res.Upload.Bytes >= 1

C4_Witness ==
  /\ cfg.Streams = 2
  /\ phaseErr["upload"] = Err("nodata", "upload", 0)
  /\ \A w \in Workers : outcome["upload"][w] \in {"ok", "deadline"}
  /\ phaseErr["download"] = NoErr

\* C5: in the upload phase the error client.Do returned to a worker has been
\* handed to setRunErr if and only if it is neither deadline-exceeded nor
\* canceled, so the error slot is set exactly when some worker ended with
\* such an error and never holds the error of a worker that ended by its
\* deadline or by cancellation; when every worker ended with a response or an expected
\* cancellation and at least one byte was counted, the phase succeeds and
\* reports the bytes all byte sources yielded, those of the workers whose
\* deadline fired included.
Reported(ph, w) == \E i \in 1..Len(errCalls[ph]) : errCalls[ph][i].by = w

C5_ExpectedCancellation ==
  /\ \A w \in Workers :
       /\ Reported("upload", w)
            <=> outcome["upload"][w] \notin {"none", "ok", "deadline", "canceled"}
       /\ outcome["upload"][w] \in {"deadline", "canceled"}
            => runErr["upload"].by # w
  /\ runErr["upload"] # NoErr
       <=> \E w \in Workers :
             outcome["upload"][w] \notin {"none", "ok", "deadline", "canceled"}
  /\ (/\ Returned("upload")
      /\ \A w \in Started("upload") :
           outcome["upload"][w] \in {"ok", "deadline", "canceled"}
      /\ totalBytes["upload"] >= 1)
       => /\ Succeeded
          /\ ret.res.Upload.Bytes = SumFn(count, Workers)

C5_Witness ==
  /\ Succeeded
  /\ outcome["upload"][1] = "deadline"
  /\ count[1] >= 1
  /\ ret.res.Upload.Bytes = count[1] + count[2]

\* C6: the error slot is single-assignment: while no non-nil error has been
\* passed to setRunErr the slot is empty and the once-guard unused, calls
\* with nil included; from the first non-nil call on the slot holds that
\* call's error, it was written exactly once, and later calls change nothing.
IsNonNil(e) == e # NoErr
NonNilCalls(ph) == SelectSeq(errCalls[ph], IsNonNil)

C6_FirstErrWins ==
  \A ph \in Phases :
    IF NonNilCalls(ph) = <<>>
    THEN runErr[ph] = NoErr /\ ~errOnce[ph] /\ errWrites[ph] = 0
    ELSE runErr[ph] = NonNilCalls(ph)[1] /\ errOnce[ph] /\ errWrites[ph] = 1

C6_Witness ==
  /\ Len(errCalls["download"]) >= 3
  /\ errCalls["download"][1] = NoErr
  /\ errCalls["download"][2] = Err("transport", "download", 2)
  /\ errCalls["download"][3] = Err("deadline", "download", 1)
  /\ runErr["download"] = Err("transport", "download", 2)

\* C7: no increment of the shared counter is lost: after the join the counter
\* of a phase equals the sum of the amounts its workers added, and the Bytes
\* a successful phase reports is that sum.
Added(ph) ==
  IF ph = "download" THEN SumFn(readBytes, Workers) ELSE SumFn(count, Workers)

C7_Joined == \A ph \in Phases : Joined(ph) => totalBytes[ph] = Added(ph)

C7_Reported ==
  /\ (pc = At("download", "return") /\ pc' = At("upload", "setup"))
       => downloadRes'.Bytes = Added("download")
  /\ (pc = At("upload", "return") /\ pc' = PcReturned /\ ret'.err = NoErr)
       => /\ ret'.res.Upload.Bytes = Added("upload")
          /\ ret'.res.Download = downloadRes

C7_NoLostUpdate == []C7_Joined /\ [][C7_Reported]_vars

C7_Witness ==
  /\ Joined("download")
  /\ readBytes[1] = PerStreamBytes
  /\ readBytes[2] = PerStreamBytes
  /\ totalBytes["download"] = 2 * PerStreamBytes

\* C8: in the download phase a worker's fatal error leaves the shared context
\* and every other worker as they are; the others end only by their own end
\* of stream, error or deadline, and every chunk read while the error slot is
\* set is still added to the counter.
C8_OthersUntouched ==
  Len(errCalls'["download"]) > Len(errCalls["download"]) =>
    LET by == errCalls'["download"][Len(errCalls'["download"])].by
    IN  /\ ctx'["download"] = ctx["download"]
        /\ \A w \in Workers \ {by} :
             /\ worker'["download"][w] = worker["download"][w]
             /\ body'[w] = body[w]

C8_StillCounted ==
  /\ pc.ph = "download" => totalBytes["download"] = SumFn(readBytes, Workers)
  /\ lateBytes["download"] <= totalBytes["download"]
  /\ \A w \in Workers :
       outcome["download"][w] \in {"none", "eof", "transport", "deadline", "url"}

C8_ErrDoesNotStop == []C8_StillCounted /\ [][C8_OthersUntouched]_vars

C8_Witness ==
  /\ runErr["download"].by = 1
  /\ lateBytes["download"] = PerStreamBytes
  /\ outcome["download"][2] = "eof"

\* C9: in the upload phase the shared counter always equals the sum of the
\* byte sources' own counts, and a read of a source adds the number of bytes
\* it returned to both, whatever becomes of the request.
C9_Counts == totalBytes["upload"] = SumFn(count, Workers)

C9_ReadAdds ==
  \A w \in Workers :
    /\ count'[w] >= count[w]
    /\ count'[w] # count[w]
         => /\ worker["upload"][w] = "do"
            /\ uploadCtx[w] = "live"
            /\ count'[w] - count[w] \in 1..ChunkSize
            /\ totalBytes'["upload"] - totalBytes["upload"] = count'[w] - count[w]
            /\ worker' = worker

C9_CountsGenerated == []C9_Counts /\ [][C9_ReadAdds]_vars

C9_Witness ==
  /\ outcome["upload"][1] = "transport"
  /\ outcome["upload"][2] = "deadline"
  /\ count[1] >= 1
  /\ count[2] >= 1
  /\ totalBytes["upload"] = count[1] + count[2]

\* C10: when a download or upload phase function has returned, exactly
\* cfg.Streams workers were started in it and every one of them has returned;
\* this stays so in the later phase and after RunClient has returned.
C10_WorkersJoined ==
  \A ph \in Phases :
    Returned(ph) =>
      /\ spawned[ph] = cfg.Streams
      /\ Cardinality(Started(ph)) = cfg.Streams
      /\ Running(ph) = {}
      /\ wg[ph] = 0

C10_Witness ==
  /\ cfg.Streams = 2
  /\ Returned("upload")
  /\ Returned("download")
  /\ \A ph \in Phases : \A w \in Workers : worker[ph][w] = "done"

\* C11: when every deadline and request timeout fires and every goroutine
\* that can run does run, RunClient returns; every phase that has started its
\* worker loop reaches the point after wg.Wait; an upload worker whose
\* context is done returns, and so does a download worker once the phase
\* deadline has fired.
C11_Terminates ==
  /\ <>(pc = PcReturned)
  /\ \A ph \in Phases : (pc = At(ph, "go")) ~> Joined(ph)
  /\ \A w \in Workers :
       (worker["upload"][w] = "do" /\ uploadCtx[w] = "deadline")
         ~> (worker["upload"][w] = "done")
  /\ \A w \in Workers :
       (worker["download"][w] \in {"do", "read"} /\ ctx["download"] = "deadline")
         ~> (worker["download"][w] = "done")

C11_Witness ==
  /\ Succeeded
  /\ cfg.Streams = 2
  /\ outcome["download"][1] = "eof"
  /\ outcome["upload"][1] = "deadline"
  /\ outcome["upload"][2] = "ok"

\* C12: the update the sink holds has its percent in 0..100, its Mbps and
\* its latency not below zero, whatever the arguments of the reportProgress
\* call that delivered it; an argument that was in its range is delivered as
\* it was passed, and without a sink nothing is delivered.
C12_Clamped ==
  /\ sink.last.Percent \in 0..100
  /\ sink.last.Mbps >= 0
  /\ sink.last.PingMs >= 0
  /\ sink.last.Phase = sink.raw.Phase
  /\ sink.raw.Percent \in 0..100 => sink.last.Percent = sink.raw.Percent
  /\ sink.raw.Mbps >= 0 => sink.last.Mbps = sink.raw.Mbps
  /\ sink.raw.PingMs >= 0 => sink.last.PingMs = sink.raw.PingMs
  /\ ~cfg.Progress => Delivered = 0 /\ sink.last = NoUpdate

C12_Witness ==
  /\ sink.raw.Percent > 100
  /\ sink.last.Percent = 100
  /\ sink.raw.Mbps < 0
  /\ sink.last.Mbps = 0
  /\ sink.raw.PingMs = 1
  /\ sink.last.PingMs = 1

\* C13: progressCh never holds more than 16 updates; a report made while it
\* holds 16 returns with the update dropped and the channel's contents as
\* they were, a report made while there is room appends the update; and the
\* measurement path makes all its reports even when nothing is ever taken
\* from the channel.
C13_Bounded == Len(progressCh) <= ProgressChCap

C13_SendOrDrop ==
  sink'.n # sink.n =>
    IF Len(progressCh) >= ProgressChCap
    THEN progressCh' = progressCh /\ dropped' = dropped + 1
    ELSE progressCh' = Append(progressCh, sink'.last) /\ dropped' = dropped

C13_NonBlocking ==
  /\ []C13_Bounded
  /\ [][C13_SendOrDrop]_vars
  /\ <>(Delivered = MaxSends)

C13_Witness ==
  /\ Len(progressCh) = ProgressChCap
  /\ dropped = MaxSends - ProgressChCap
  /\ Delivered = MaxSends
  /\ progressCh[1].Percent = percentDone(1, MaxSends)

\* C14: what RunClient returns is decided by what the remote endpoint did,
\* whether or not a sink is configured and whatever the sink does with the
\* updates: a download or upload phase returns the first error its workers
\* passed to setRunErr, else the no-data error when its workers moved no
\* byte, else the sum of the bytes its workers moved; RunClient returns the
\* first phase error in phase order, else the three phases' metrics; and the
\* steps that only serve progress (a sampler's tick or exit, closing
\* progressDone, the final event) leave all of that state as it was.
HistoryOutcome(ph) ==
  IF NonNilCalls(ph) # <<>> THEN NonNilCalls(ph)[1]
  ELSE IF Added(ph) = 0 THEN Err("nodata", ph, 0)
  ELSE NoErr

Measured ==
  <<ret, pingRes, downloadRes, phaseErr, totalBytes, lateBytes, runErr, errOnce,
    errCalls, errWrites, worker, outcome, count, readBytes, body, ctx, uploadCtx,
    wg, spawned, elapsed, requests, results, pingInFlight, sleeps>>

C14_Returned ==
  pc = PcReturned =>
    /\ ret.err = IF phaseErr["ping"] # NoErr THEN phaseErr["ping"]
                 ELSE IF phaseErr["download"] # NoErr THEN phaseErr["download"]
                 ELSE phaseErr["upload"]
    /\ ret.err = NoErr =>
         /\ ret.res.Ping = pingRes
         /\ ret.res.Download = downloadRes
         /\ ret.res.Upload.Bytes = Added("upload")

C14_PhaseReturns ==
  \A ph \in Phases :
    (pc = At(ph, "return") /\ pc' # pc) =>
      /\ phaseErr'[ph] = HistoryOutcome(ph)
      /\ (ph = "download" /\ phaseErr'[ph] = NoErr)
           => downloadRes'.Bytes = Added("download")
      /\ (ph = "upload" /\ phaseErr'[ph] = NoErr)
           => ret'.res.Upload.Bytes = Added("upload")

C14_Advisory ==
  (\/ ticks' # ticks
   \/ sampler' # sampler /\ pc' = pc
   \/ pc.at \in {"close", "final"})
    => Measured' = Measured

C14_ProgressIsAdvisory ==
  /\ []C14_Returned
  /\ [][C14_PhaseReturns]_vars
  /\ [][C14_Advisory]_vars

C14_Witness ==
  /\ Succeeded
  /\ cfg.Progress
  /\ ticks >= 1
  /\ sink.n["download"] >= 2
  /\ sink.n["upload"] >= 1
  /\ ret.res.Download.Bytes = 2 * PerStreamBytes

\* C15: the configuration normalizeClientConfig returns has Duration > 0,
\* Streams >= 1, ChunkSize >= 1024, DownloadMB >= 1, PingCount >= 1,
\* Timeout > 0 and a base URL that does not end in a slash; a numeric field
\* that was valid is returned as it was and one that was not is its default;
\* an empty base URL becomes the default endpoint, any other base URL loses
\* its trailing slashes and nothing else; the sink is left as it was.
NoTrailingSlash(url) == url = <<>> \/ url[Len(url)] # "/"

IsTrimOf(out, in) ==
  /\ NoTrailingSlash(out)
  /\ Len(out) <= Len(in)
  /\ SubSeq(in, 1, Len(out)) = out
  /\ \A i \in (Len(out) + 1)..Len(in) : in[i] = "/"

C15_Valid ==
  pc # PcStart =>
    /\ cfg.Duration > 0
    /\ cfg.Streams >= 1
    /\ cfg.ChunkSize >= 1024
    /\ cfg.DownloadMB >= 1
    /\ cfg.PingCount >= 1
    /\ cfg.Timeout > 0
    /\ NoTrailingSlash(cfg.BaseURL)

C15_FieldByField ==
  (pc = PcStart /\ pc' # PcStart) =>
    /\ cfg'.Duration = IF cfg.Duration > 0 THEN cfg.Duration ELSE DefaultDuration
    /\ cfg'.Streams = IF cfg.Streams >= 1 THEN cfg.Streams ELSE DefaultStreams
    /\ cfg'.ChunkSize = IF cfg.ChunkSize >= 1024 THEN cfg.ChunkSize
                        ELSE DefaultChunkSize
    /\ cfg'.DownloadMB = IF cfg.DownloadMB >= 1 THEN cfg.DownloadMB
                         ELSE DefaultDownloadMB
    /\ cfg'.PingCount = IF cfg.PingCount >= 1 THEN cfg.PingCount
                        ELSE DefaultPingCount
    /\ cfg'.Timeout = IF cfg.Timeout > 0 THEN cfg.Timeout ELSE DefaultTimeout
    /\ IF cfg.BaseURL = <<>> THEN cfg'.BaseURL = DefaultClientBase
       ELSE IsTrimOf(cfg'.BaseURL, cfg.BaseURL)
    /\ NoTrailingSlash(cfg.BaseURL) /\ cfg.BaseURL # <<>>
         => cfg'.BaseURL = cfg.BaseURL
    /\ cfg'.Progress = cfg.Progress

C15_Normalized == []C15_Valid /\ [][C15_FieldByField]_vars

C15_Witness ==
  /\ pc = PcPing
  /\ cfg.BaseURL = <<"a">>
  /\ cfg.Duration = DefaultDuration
  /\ cfg.Streams = 2
  /\ cfg.ChunkSize = MinChunkSize
  /\ cfg.DownloadMB = DefaultDownloadMB
  /\ cfg.PingCount = 2
  /\ cfg.Timeout = DefaultTimeout

\* C16: a probe that fails (the request in flight ends and no sample is
\* added) ends runPing at once: RunClient has returned that error with the
\* zero Result, the samples collected before are gone, and no request, no
\* pause and no progress event comes with it or after it.
PingFailed == phaseErr["ping"] \notin {Pending, NoErr}

C16_Failed ==
  PingFailed =>
    /\ pc = PcReturned
    /\ phaseErr["ping"].kind \in {"transport", "url"}
    /\ ret = [res |-> ZeroResult, err |-> phaseErr["ping"]]
    /\ pingRes = ZeroPing
    /\ results = <<>>
    /\ ~pingInFlight
    /\ requests["ping"] <= cfg.PingCount
    /\ sleeps = requests["ping"] - 1
    /\ cfg.Progress => sink.n["ping"] = requests["ping"] - 1

C16_FailStep ==
  (pingInFlight /\ ~pingInFlight' /\ Len(results') # Len(results) + 1) =>
    /\ pc' = PcReturned
    /\ PingFailed'
    /\ requests["ping"] = Len(results) + 1
    /\ requests' = requests
    /\ sleeps' = sleeps
    /\ sink' = sink

C16_NothingAfter ==
  PingFailed => requests' = requests /\ sleeps' = sleeps /\ sink' = sink

C16_AbortsOnFirstFailure ==
  /\ []C16_Failed
  /\ [][C16_FailStep]_vars
  /\ [][C16_NothingAfter]_vars

C16_Witness ==
  /\ phaseErr["ping"].kind = "transport"
  /\ cfg.PingCount = 3
  /\ requests["ping"] = 3
  /\ sink.n["ping"] = 2
  /\ sleeps = 2
  /\ ret.res = ZeroResult

\* C17: when the last of the PingCount probes has succeeded, runPing returns
\* metrics over all the samples, whatever their order of arrival: Min is the
\* smallest sample, Avg the sum of the samples divided by their number and
\* truncated, and P95 the sample of rank k from the smallest, where k - 1 is
\* ceil(n * 0.95) - 1 kept within 0..n-1; the samples 10, 20 and 30 in any
\* order give 10, 20 and 30.
Samples(s) == {s[i] : i \in 1..Len(s)}
Rank(n) == Min2(Max2(CeilDiv(n * 95, 100) - 1, 0), n - 1) + 1

IsOfRank(v, s, k) ==
  /\ v \in Samples(s)
  /\ Cardinality({i \in 1..Len(s) : s[i] < v}) < k
  /\ Cardinality({i \in 1..Len(s) : s[i] <= v}) >= k

C17_SortedMetrics ==
  (pc = PcPing /\ pc' = At("download", "setup")) =>
    /\ Len(results) = cfg.PingCount
    /\ pingRes'.Min \in Samples(results)
    /\ \A x \in Samples(results) : pingRes'.Min <= x
    /\ pingRes'.Avg = SumSeq(results) \div Len(results)
    /\ IsOfRank(pingRes'.P95, results, Rank(Len(results)))
    /\ (Len(results) = 3 /\ Samples(results) = {10, 20, 30})
         => pingRes' = [Min |-> 10, Avg |-> 20, P95 |-> 30]

C17_Metrics == [][C17_SortedMetrics]_vars

C17_Witness ==
  /\ pc = At("download", "setup")
  /\ cfg.PingCount = 3
  /\ pingRes = [Min |-> 10, Avg |-> 20, P95 |-> 30]
  /\ sink.last.PingMs = 10
  /\ sink.last.Percent = 100

\* C20: runPing has at most one probe in flight and issues at most PingCount
\* probes; the i-th successful probe (i from 0) delivers exactly one "ping"
\* update, whose percent is (i+1) * 100 / PingCount (in whole percents), whose
\* latency is the sample just taken and whose percent is above that of the
\* update before; it is followed by a pause unless i = PingCount - 1; when
\* the phase has succeeded PingCount updates were delivered, the last one
\* with percent 100, and PingCount - 1 pauses were made.
InFlight == requests["ping"] - Len(results)

C20_OneAtATime ==
  /\ pc = PcPing =>
       /\ InFlight \in {0, 1}
       /\ pingInFlight <=> InFlight = 1
       /\ requests["ping"] <= cfg.PingCount
       /\ sleeps = Min2(Len(results), cfg.PingCount - 1)
       /\ cfg.Progress => sink.n["ping"] = Len(results)
  /\ phaseErr["ping"] = NoErr =>
       /\ requests["ping"] = cfg.PingCount
       /\ sleeps = cfg.PingCount - 1
       /\ cfg.Progress => sink.n["ping"] = cfg.PingCount
       /\ ~cfg.Progress => sink.n["ping"] = 0

C20_ProbeDone ==
  Len(results') = Len(results) + 1 =>
    LET i == Len(results)
    IN  /\ sleeps' = IF i = cfg.PingCount - 1 THEN sleeps ELSE sleeps + 1
        /\ requests' = requests
        /\ cfg.Progress =>
             /\ sink'.n["ping"] = sink.n["ping"] + 1
             /\ sink'.last.Phase = "ping"
             /\ sink'.last.Percent * cfg.PingCount <= (i + 1) * 100
             /\ (sink'.last.Percent + 1) * cfg.PingCount > (i + 1) * 100
             /\ sink'.last.PingMs = results'[i + 1]
             /\ sink'.last.Mbps = 0
             /\ i > 0 => sink'.last.Percent > sink.last.Percent
             /\ i = cfg.PingCount - 1 => sink'.last.Percent = 100

C20_Issue ==
  requests' # requests =>
    /\ ~pingInFlight
    /\ pingInFlight'
    /\ requests'["ping"] = requests["ping"] + 1
    /\ sink' = sink

C20_Sequential ==
  /\ []C20_OneAtATime
  /\ [][C20_ProbeDone]_vars
  /\ [][C20_Issue]_vars

C20_Witness ==
  /\ phaseErr["ping"] = NoErr
  /\ cfg.PingCount = 3
  /\ requests["ping"] = 3
  /\ sink.n["ping"] = 3
  /\ sink.last.Percent = 100
  /\ sleeps = 2

\* C18: with a sink configured, the sampler of a download or upload phase
\* is running before any worker of the phase is started, progressDone is
\* closed only when every worker of the phase has returned, and the sampler
\* goroutine has ended when the phase function has returned.
C18_StartedFirst ==
  \A ph \in Phases :
    (cfg.Progress /\ Started(ph) # {}) => sampler[ph] # "off"

C18_StoppedLast ==
  \A ph \in Phases :
    progressDone[ph] = "closed" =>
      /\ Running(ph) = {}
      /\ Cardinality(Started(ph)) = cfg.Streams

C18_SamplerJoined ==
  /\ C18_StartedFirst
  /\ C18_StoppedLast
  /\ \A ph \in Phases :
       (cfg.Progress /\ Returned(ph)) => sampler[ph] = "exit"

\* C19: with a sink configured, a download or upload phase function reaches
\* its error checks only through its final update: every worker has
\* returned, progressDone is closed, and the update delivered has the phase's
\* tag, percent 100 and the rate over the whole phase; so a phase that has
\* returned, with whatever outcome, has delivered it.  With no sink
\* configured no sampler exists and no update is delivered in any phase.
FinalUpdate(ph) ==
  [Phase |-> ph, Percent |-> 100,
   Mbps |-> bytesToMbps(totalBytes[ph], elapsed[ph]), PingMs |-> 0]

C19_IntoReturn ==
  \A ph \in Phases :
    (pc' = At(ph, "return") /\ pc # pc') =>
      IF cfg.Progress
      THEN /\ pc = At(ph, "final")
           /\ progressDone[ph] = "closed"
           /\ Running(ph) = {}
           /\ wg[ph] = 0
           /\ sink'.last = FinalUpdate(ph)
           /\ sink'.n = [sink.n EXCEPT ![ph] = @ + 1]
      ELSE /\ pc = At(ph, "go")
           /\ sink' = sink

C19_OutOfReturn ==
  \A ph \in Phases : phaseErr'[ph] # phaseErr[ph] => pc = At(ph, "return")

C19_Delivered ==
  /\ \A ph \in Phases : (cfg.Progress /\ Returned(ph)) => sink.n[ph] >= 1
  /\ ~cfg.Progress =>
       /\ sink.last = NoUpdate
       /\ \A ph \in AllPhases : sink.n[ph] = 0
       /\ \A ph \in Phases : sampler[ph] = "off" /\ progressDone[ph] = "nil"
       /\ ticks = 0

C19_FinalEvent ==
  /\ []C19_Delivered
  /\ [][C19_IntoReturn]_vars
  /\ [][C19_OutOfReturn]_vars

C19_Witness ==
  /\ cfg.Progress
  /\ phaseErr["download"].kind = "transport"
  /\ totalBytes["download"] >= 1
  /\ sink.last = FinalUpdate("download")
  /\ sink.n["download"] = 1

\* C21: in a run of RunClient runPing never returns "ping returned no data":
\* once the configuration is normalized PingCount is at least 1, and when the
\* probe loop ends without a transport error the number of samples is
\* PingCount, so the guard on an empty slice finds at least one sample and
\* the phase returns its metrics.
C21_PingCount == pc # PcStart => cfg.PingCount >= 1

C21_NeverNoData == phaseErr["ping"].kind # "nodata"

C21_LoopEnd ==
  (pc = PcPing /\ pc' # PcPing /\ phaseErr'["ping"].kind \notin {"transport", "url"}) =>
    /\ Len(results) = cfg.PingCount
    /\ Len(results) >= 1
    /\ requests["ping"] = cfg.PingCount
    /\ phaseErr'["ping"] = NoErr
    /\ pc' = At("download", "setup")

C21_NoDataUnreachable ==
  [](C21_PingCount /\ C21_NeverNoData) /\ [][C21_LoopEnd]_vars

C21_Witness ==
  /\ phaseErr["ping"] = NoErr
  /\ cfg.PingCount = DefaultPingCount
  /\ requests["ping"] = DefaultPingCount
  /\ pingRes.Min \in PingRTTs

\* C22: a call of timedReader.Read with a buffer of len(p) bytes over a
\* context that is not done returns min(len(p), ChunkSize) bytes and no error
\* and adds that number both to the reader's own count and to the shared
\* counter; over a context that is done it returns 0 bytes and the context's
\* error and leaves both counters as they are.  Nothing else moves the
\* counters, and the other readers' counts are untouched by the call.
C22_Live(w, lenp, r) ==
  /\ r.n = IF lenp <= ChunkSize THEN lenp ELSE ChunkSize
  /\ r.err = "nil"
  /\ count'[w] = count[w] + r.n
  /\ totalBytes'["upload"] = totalBytes["upload"] + r.n

C22_Done(w, r) ==
  /\ r.n = 0
  /\ r.err = IF uploadCtx[w] = "deadline" THEN "deadline" ELSE "canceled"
  /\ count' = count
  /\ totalBytes' = totalBytes

C22_ReadStep ==
  IF lastCall'.k # lastCall.k
  THEN LET w == lastCall'.args[1]
           lenp == lastCall'.args[2]
           r == lastCall'.out
       IN  /\ lastCall'.fn = "Read"
           /\ IF uploadCtx[w] = "live" THEN C22_Live(w, lenp, r) ELSE C22_Done(w, r)
           /\ \A v \in Workers \ {w} : count'[v] = count[v]
  ELSE count' = count /\ totalBytes' = totalBytes

C22_Read ==
  /\ [](totalBytes["upload"] = SumFn(count, Workers))
  /\ [][C22_ReadStep]_vars

C22_Witness ==
  /\ lastCall.fn = "Read"
  /\ lastCall.out = [n |-> 0, err |-> "deadline"]
  /\ count[lastCall.args[1]] = 2 * ChunkSize
  /\ totalBytes["upload"] = 3 * ChunkSize

\* C23: for a non-empty ascending sequence S, percentileDuration(S, 0) is the
\* first element and percentileDuration(S, 1) the last; for 0 < p < 1 it is
\* the element of index ceil(|S| * p) - 1 (from 0), the index kept within
\* 0..|S|-1; the result is always an element of S; for the empty sequence it
\* is 0.  ceil is stated here as the least integer not below the product.
Ceil(num, den) == CHOOSE k \in 0..(num + 1) : k * den >= num /\ (k - 1) * den < num

C23_Index(n, pNum) ==
  LET i == Ceil(n * pNum, PDen) - 1
  IN  IF i < 0 THEN 0 ELSE IF i > n - 1 THEN n - 1 ELSE i

C24_Average ==
  lastCall.fn = "avgDuration" =>
    LET S == lastCall.args[1]
        sum == SumSeq(S)
        n == Len(S)
        out == lastCall.out
    IN  /\ n = 0 => out = 0
        /\ (n > 0 /\ sum >= 0) => (out * n <= sum /\ sum < (out + 1) * n)
        /\ (n > 0 /\ sum < 0) => (out * n >= sum /\ sum > (out - 1) * n)

C24_Witness ==
  /\ lastCall.fn = "avgDuration"
  /\ lastCall.args[1] = <<1, 2, 2>>
  /\ lastCall.out = 1

\* C25: bytesToMbps is 0 for a duration of 0 or less, and otherwise the bits
\* (8 per byte) per second in millions, which is the bits per ms in
\* thousandths of Mbps (kbit/s, whole ones here); a phase whose 2 workers
\* have each added 1,000,000 bytes and that took 1 s reports 2,000,000 bytes
\* and 16.0 Mbps.
C25_Rate ==
  lastCall.fn = "bytesToMbps" =>
    LET bytes == lastCall.args[1]
        duration == lastCall.args[2]
        out == lastCall.out
    IN  /\ duration <= 0 => out = 0
        /\ duration > 0 =>
             (out * duration <= bytes * 8 /\ bytes * 8 < (out + 1) * duration)

C25_Phase ==
  lastCall.fn = "SpeedMetrics" =>
    LET n == lastCall.args[1]
        bytes == lastCall.args[2]
        el == lastCall.args[3]
        out == lastCall.out
    IN  /\ out.Bytes = n * bytes
        /\ out.Duration = el
        /\ el <= 0 => out.Mbps = 0
        /\ (n = 2 /\ bytes = 1000000 /\ el = 1000) =>
             (out.Bytes = 2000000 /\ out.Mbps = 16000)

C25_Mbps == C25_Rate /\ C25_Phase

C25_Witness ==
  /\ lastCall.fn = "SpeedMetrics"
  /\ lastCall.args = <<2, 1000000, 1000>>
  /\ lastCall.out = [Mbps |-> 16000, Bytes |-> 2000000, Duration |-> 1000]

\* C26: once a download or upload phase has delivered its final 100% update,
\* no further update with that phase's tag is delivered, neither before the
\* phase function returns nor after it (so none during a later phase).
C26_PastFinal(ph) == pc = At(ph, "return") \/ Returned(ph)

C26_NoLaterEvent ==
  \A ph \in Phases : C26_PastFinal(ph) => sink'.n[ph] = sink.n[ph]

C26_FinalIsLast == [][C26_NoLaterEvent]_vars

\* C27: in the terminal program the queue is closed only after RunClient has
\* returned, and no update is sent on it once it is closed: no phase and no
\* sampler calls the sink after close(progressCh).
C27_ClosedAfterReturn == chClosed => pc = PcReturned

C27_NoSend == chClosed => sink'.n = sink.n

C27_NoSendAfterClose == []C27_ClosedAfterReturn /\ [][C27_NoSend]_vars

\* C28: a deadline is an accepted stop in the upload phase only.  A download
\* worker whose request or read ends with a deadline error (the phase's
\* Duration+5s context or the client's request timeout) has passed it to
\* setRunErr, so the phase's error slot is set; the download phase then
\* returns that slot's error and no metrics, whatever number of bytes was
\* counted, and RunClient returns the error with an empty result.  An upload
\* worker that ends with a deadline error has passed nothing to setRunErr.
C28_Expired == {w \in Workers : outcome["download"][w] = "deadline"}

C28_Captured ==
  \A w \in C28_Expired :
    /\ Reported("download", w)
    /\ runErr["download"] # NoErr
    /\ (errCalls["download"][1].by = w) => runErr["download"].kind = "deadline"

C28_PhaseFails ==
  (Returned("download") /\ C28_Expired # {}) =>
    /\ phaseErr["download"] = runErr["download"]
    /\ phaseErr["download"] # NoErr
    /\ downloadRes = ZeroSpeed
    /\ pc = PcReturned
    /\ ret = [res |-> ZeroResult, err |-> runErr["download"]]
    /\ phaseErr["upload"] = Pending

C28_UploadAccepts ==
  \A w \in Workers : outcome["upload"][w] = "deadline" => ~Reported("upload", w)

C28_DeadlineFatalInDownload == C28_Captured /\ C28_PhaseFails /\ C28_UploadAccepts

C28_Witness ==
  /\ Returned("download")
  /\ ctx["download"] = "deadline"
  /\ phaseErr["download"].kind = "deadline"
  /\ totalBytes["download"] >= 1
  /\ ret.res = ZeroResult
  /\ ret.err.kind = "deadline"

\* C29: normalizeClientConfig is idempotent and its result has a non-empty
\* base URL, for every configuration passed, a base URL of slashes only
\* included: the configuration RunClient works with is left as it is by
\* normalizeClientConfig and its BaseURL is not the empty string.
C29_NonEmpty == pc # PcStart => cfg.BaseURL # <<>>

C29_FixedPoint == pc # PcStart => normalizeClientConfig(cfg) = cfg

C29_Idempotent == C29_NonEmpty /\ C29_FixedPoint

=============================================================================
